---------------------------- MODULE Spec2Model ----------------------------
(* scripts/seed_school_batch.py: reconciliation of a static mapping table  *)
(* (batch code, program tier, school name) into school_batch rows.         *)
(* Two runs of the script work against one PostgreSQL database, each in a  *)
(* transaction of its own (READ COMMITTED: a statement sees the committed  *)
(* rows and the rows its own transaction wrote).                           *)
EXTENDS Integers, Sequences, FiniteSets, TLC

\* ------------------------------------------------------------------ bounds
\* Longest mapping table explored.
MaxRows == 2

\* ------------------------------------------------------------ the database
\* SQL NULL / Python None in an id column.
NULL == -1

\* Two runs of the script (an operator re-running the job).
Runs == {1, 2}

\* batch(id, batch_id, parent_id): read-only for the script.  Batch 3 is the
\* parent of batches 1 and 2, and its own parent is the batch whose id is 0.
batch ==
    { [id |-> 1, batch_id |-> "X01", parent_id |-> 3],
      [id |-> 2, batch_id |-> "X02", parent_id |-> 3],
      [id |-> 3, batch_id |-> "P01", parent_id |-> 0],
      [id |-> 0, batch_id |-> "R00", parent_id |-> NULL] }

\* school(id, name): read-only for the script; name is not unique.
school ==
    { [id |-> 7, name |-> "A"],
      [id |-> 8, name |-> "A"],
      [id |-> 5, name |-> "B"] }

\* Lines of a mapping table after line.split("\t") and strip of each part.
\* The last one has fewer than three parts.
Lines ==
    { <<"X01", "CoE", "A">>,
      <<"X02", "CoE", "A">>,
      <<"P01", "Nodal", "B">>,
      <<"R00", "Nodal", "B">>,
      <<"GHOST", "CoE", "Nowhere">>,
      <<"X01", "CoE", "Nowhere">>,
      <<"R00", "Nodal", "Elsewhere">>,
      <<"X01", "CoE">> }

\* The mapping tables explored: every sequence of at most MaxRows lines.
SeqUpTo(S, n) == UNION { [1..k -> S] : k \in 0..n }

MappingTables == SeqUpTo(Lines, MaxRows)

\* A school_batch row.  xmin is the transaction that wrote it (0: a row
\* that was there before any run), which tells physical duplicates apart.
Row(s, b, t, x) ==
    [school_id |-> s, batch_id |-> b, inserted_at |-> t, updated_at |-> t,
     xmin |-> x]

\* The school_batch tables a run may find.
InitialTables == { {}, {Row(7, 1, 0, 0)} }

\* Python's order on the strings of the model (str.__lt__, by code point).
Rank ==
    [s \in {"A", "B", "Elsewhere", "GHOST", "Nowhere", "P01", "R00",
            "X01", "X02"} |->
        CASE s = "A" -> 1
          [] s = "B" -> 2
          [] s = "Elsewhere" -> 4
          [] s = "GHOST" -> 5
          [] s = "Nowhere" -> 6
          [] s = "P01" -> 7
          [] s = "R00" -> 8
          [] s = "X01" -> 9
          [] s = "X02" -> 10]

\* ---------------------------------------------------------- configuration
\* Python None as the value of os.getenv for a name that is not set.
None == "None"

EnvVars ==
    { "DATABASE_HOST", "DATABASE_PORT", "DATABASE_USER", "DATABASE_PASSWORD",
      "DATABASE_NAME" }

\* The value a name has in os.environ when it is set.
EnvValue ==
    [v \in EnvVars |->
        CASE v = "DATABASE_HOST" -> "db.example"
          [] v = "DATABASE_PORT" -> "5432"
          [] v = "DATABASE_USER" -> "postgres"
          [] v = "DATABASE_PASSWORD" -> "secret"
          [] v = "DATABASE_NAME" -> "lms"]

\* The environments explored, each the set of the names that are set (after
\* load_env): everything, everything but one name, nothing.
Envs == { EnvVars, {} } \cup { EnvVars \ {v} : v \in EnvVars }

\* os.getenv(key, default)
Getenv(env, key, default) == IF key \in env THEN EnvValue[key] ELSE default

\* int(s) for the port strings of the model.
IntOf(s) == CASE s = "5432" -> 5432

\* The module-level assignments DB_HOST ... DB_NAME.
ReadConfig(env) ==
    [DB_HOST |-> Getenv(env, "DATABASE_HOST", None),
     DB_PORT |-> IntOf(Getenv(env, "DATABASE_PORT", "5432")),
     DB_USER |-> Getenv(env, "DATABASE_USER", None),
     DB_PASSWORD |-> Getenv(env, "DATABASE_PASSWORD", None),
     DB_NAME |-> Getenv(env, "DATABASE_NAME", None)]

\* Before the assignments have run.
NotLoaded ==
    [DB_HOST |-> None, DB_PORT |-> 0, DB_USER |-> None, DB_PASSWORD |-> None,
     DB_NAME |-> None]

\* The variant of AllSet written with any() for all().
AllSet_Any(c) ==
    \E v \in { c.DB_HOST, c.DB_USER, c.DB_PASSWORD, c.DB_NAME } :
        v # None /\ v # ""

\* all([DB_HOST, DB_USER, DB_PASSWORD, DB_NAME]): None and "" are false.
AllSet(c) ==
    \A v \in { c.DB_HOST, c.DB_USER, c.DB_PASSWORD, c.DB_NAME } :
        v # None /\ v # ""

VARIABLES
    batch_table,      \* rows of table batch
    school_table,     \* rows of table school
    config,           \* per run: DB_HOST, DB_PORT, DB_USER, DB_PASSWORD, DB_NAME
    unique_index,     \* the store enforces UNIQUE (school_id, batch_id)
    MAPPING_DATA,     \* the mapping table, as a sequence of split lines
    school_batch,     \* committed rows of school_batch
    pending,          \* per run: rows inserted by its open transaction
    clock,            \* the database's clock
    txn_time,         \* per run: NOW() of its transaction
    commit_time,      \* per run: when it committed (0: not yet)
    pc,               \* per run: position in the script
    line_no,          \* per run: index of the line the loop is at
    batch_id,         \* per run: local batch_id
    parent_id,        \* per run: local parent_id
    school_id,        \* per run: local school_id
    call_site,        \* per run: which ensure_school_batch call is active
    inserted,         \* per run: counter
    skipped,          \* per run: counter
    missing_batches,  \* per run: list
    missing_schools,  \* per run: list
    error,            \* per run: the exception that ended it ("none")
    stdout,           \* per run: what it printed
    start_table,      \* history: school_batch when the run began
    select_time,      \* history: the clock at the SELECT of the open call
    row_log,          \* history: per processed line, what became of it
    attempts          \* history: the ensure_school_batch calls that returned

vars ==
    << batch_table, school_table, config, unique_index, MAPPING_DATA,
       school_batch, pending, clock, txn_time, commit_time, pc, line_no, batch_id, parent_id, school_id, call_site,
       inserted, skipped, missing_batches, missing_schools, error, stdout,
       start_table, select_time, row_log, attempts >>

Init ==
    /\ batch_table = batch
    /\ school_table = school
    /\ config = [r \in Runs |-> NotLoaded]
    /\ unique_index \in BOOLEAN
    /\ MAPPING_DATA \in MappingTables
    /\ school_batch \in InitialTables
    /\ pending = [r \in Runs |-> {}]
    /\ clock = 0
    /\ txn_time = [r \in Runs |-> 0]
    /\ commit_time = [r \in Runs |-> 0]
    /\ pc = [r \in Runs |-> "idle"]
    /\ line_no = [r \in Runs |-> 1]
    /\ batch_id = [r \in Runs |-> NULL]
    /\ parent_id = [r \in Runs |-> NULL]
    /\ school_id = [r \in Runs |-> NULL]
    /\ call_site = [r \in Runs |-> "direct"]
    /\ inserted = [r \in Runs |-> 0]
    /\ skipped = [r \in Runs |-> 0]
    /\ missing_batches = [r \in Runs |-> << >>]
    /\ missing_schools = [r \in Runs |-> << >>]
    /\ error = [r \in Runs |-> "none"]
    /\ stdout = [r \in Runs |-> << >>]
    /\ start_table = [r \in Runs |-> {}]
    /\ select_time = [r \in Runs |-> 0]
    /\ row_log = [r \in Runs |-> << >>]
    /\ attempts = [r \in Runs |-> << >>]

\* ---------------------------------------------------------------- helpers
Other(r) == CHOOSE q \in Runs : q # r

\* What a statement of run r sees: committed rows and its own writes.
Visible(r) == school_batch \cup pending[r]

HasKey(rows, s, b) ==
    \E row \in rows : row.school_id = s /\ row.batch_id = b

\* Python truth of an id column value: None and 0 are false.
Truthy(v) == v # NULL /\ v # 0

\* len(parts) < 3
Malformed(parts) == Len(parts) < 3

\* SELECT id, parent_id FROM batch WHERE batch_id = %s
BatchRows(batch_key) == { b \in batch_table : b.batch_id = batch_key }

\* SELECT id FROM school WHERE name = %s
SchoolRows(school_name) == { s \in school_table : s.name = school_name }

\* The variant of CallBatch that follows parent_id one level further at the
\* second call site.
CallBatch_Grandparent(r) ==
    IF call_site[r] = "direct" THEN batch_id[r]
    ELSE LET ps == { b \in batch_table : b.id = parent_id[r] }
         IN  IF ps = {} THEN parent_id[r]
             ELSE (CHOOSE b \in ps : TRUE).parent_id

\* The arguments of the ensure_school_batch call run r is in.
CallBatch(r) == IF call_site[r] = "direct" THEN batch_id[r] ELSE parent_id[r]

SetOf(seq) == { seq[k] : k \in 1..Len(seq) }

\* sorted(set(xs))
RECURSIVE SortedSeq(_)
SortedSeq(S) ==
    IF S = {} THEN << >>
    ELSE LET m == CHOOSE x \in S : \A y \in S : Rank[x] <= Rank[y]
         IN  <<m>> \o SortedSeq(S \ {m})

Count(seq, x) == Cardinality({ n \in 1..Len(seq) : seq[n] = x })

\* sorted(xs): the variant of the report that forgets set().
RECURSIVE Repeat(_, _)
Repeat(x, n) == IF n = 0 THEN << >> ELSE <<x>> \o Repeat(x, n - 1)

RECURSIVE SortedBag(_, _)
SortedBag(xs, S) ==
    IF S = {} THEN << >>
    ELSE LET m == CHOOSE x \in S : \A y \in S : Rank[x] <= Rank[y]
         IN  Repeat(m, Count(xs, m)) \o SortedBag(xs, S \ {m})

SortedSet_NoSet(xs) == SortedBag(xs, SetOf(xs))

SortedSet(xs) == SortedSeq(SetOf(xs))

\* --------------------------------------------------------------- actions
\* The script starts: the DB_* assignments and the check of the required
\* ones, which raises RuntimeError before psycopg2.connect is reached.
\* A run that stops here has touched nothing and takes no part in any
\* interleaving: it is explored as run 1, and run 2 is a run that starts
\* once run 1 has connected.
LoadConfig(r) ==
    /\ pc[r] = "idle"
    /\ r = 2 => pc[1] \notin {"idle", "configured"} /\ txn_time[1] # 0
    /\ \E env \in Envs :
          /\ r = 2 => AllSet(ReadConfig(env))
          /\ config' = [config EXCEPT ![r] = ReadConfig(env)]
          /\ IF AllSet(ReadConfig(env))
             THEN /\ pc' = [pc EXCEPT ![r] = "configured"]
                  /\ UNCHANGED error
             ELSE /\ pc' = [pc EXCEPT ![r] = "aborted"]
                  /\ error' = [error EXCEPT ![r] = "RuntimeError"]
    /\ UNCHANGED << batch_table, school_table, unique_index, MAPPING_DATA,
                    school_batch, pending, clock, txn_time, commit_time,
                    line_no, batch_id, parent_id, school_id, call_site,
                    inserted, skipped, missing_batches, missing_schools,
                    stdout, start_table, select_time, row_log, attempts >>

\* psycopg2.connect, `with conn:`; the transaction's NOW() is fixed here.
Begin(r) ==
    /\ pc[r] = "configured"
    /\ clock' = clock + 1
    /\ txn_time' = [txn_time EXCEPT ![r] = clock + 1]
    /\ start_table' = [start_table EXCEPT ![r] = school_batch]
    /\ pc' = [pc EXCEPT ![r] = "loop"]
    /\ UNCHANGED select_time
    /\ UNCHANGED << batch_table, school_table, config >>
    /\ UNCHANGED << unique_index, MAPPING_DATA, school_batch, pending,
                    commit_time, line_no, batch_id, parent_id, school_id,
                    call_site, inserted, skipped, missing_batches,
                    missing_schools, error, stdout, row_log, attempts >>

\* A blank line, or one with fewer than three parts: `continue`.
SkipLine(r) ==
    /\ pc[r] = "loop"
    /\ line_no[r] <= Len(MAPPING_DATA)
    /\ Malformed(MAPPING_DATA[line_no[r]])
    /\ line_no' = [line_no EXCEPT ![r] = @ + 1]
    /\ row_log' = [row_log EXCEPT ![r] =
                     Append(@, [outcome |-> "malformed", school |-> NULL])]
    /\ UNCHANGED select_time
    /\ UNCHANGED << batch_table, school_table, config >>
    /\ UNCHANGED << unique_index, MAPPING_DATA, school_batch, pending, clock,
                    txn_time, commit_time, pc, batch_id, parent_id, school_id,
                    call_site, inserted, skipped, missing_batches,
                    missing_schools, error, stdout, start_table, attempts >>

\* The variant of MissingBatch that forgets `continue`: the loop body goes
\* on to the school lookup.
MissingBatch_NoContinue(r, batch_key) ==
    /\ missing_batches' =
          [missing_batches EXCEPT ![r] = Append(@, batch_key)]
    /\ row_log' = [row_log EXCEPT ![r] =
          Append(@, [outcome |-> "missing_batch", school |-> NULL])]
    /\ pc' = [pc EXCEPT ![r] = "lookup_school"]
    /\ UNCHANGED << line_no, batch_id, parent_id >>

\* `if not batch_row:` append the code and `continue`.
MissingBatch(r, batch_key) ==
    /\ missing_batches' =
          [missing_batches EXCEPT ![r] = Append(@, batch_key)]
    /\ line_no' = [line_no EXCEPT ![r] = @ + 1]
    /\ row_log' = [row_log EXCEPT ![r] =
          Append(@, [outcome |-> "missing_batch", school |-> NULL])]
    /\ UNCHANGED << pc, batch_id, parent_id >>

\* The batch lookup of a well-formed line.
LookupBatch(r) ==
    /\ pc[r] = "loop"
    /\ line_no[r] <= Len(MAPPING_DATA)
    /\ ~Malformed(MAPPING_DATA[line_no[r]])
    /\ LET batch_key == MAPPING_DATA[line_no[r]][1]
       IN  IF BatchRows(batch_key) = {}
           THEN MissingBatch(r, batch_key)
           ELSE \E batch_row \in BatchRows(batch_key) :
                /\ batch_id' = [batch_id EXCEPT ![r] = batch_row.id]
                /\ parent_id' = [parent_id EXCEPT ![r] = batch_row.parent_id]
                /\ pc' = [pc EXCEPT ![r] = "lookup_school"]
                /\ UNCHANGED << missing_batches, line_no, row_log >>
    /\ UNCHANGED select_time
    /\ UNCHANGED << batch_table, school_table, config >>
    /\ UNCHANGED << unique_index, MAPPING_DATA, school_batch, pending, clock,
                    txn_time, commit_time, school_id, call_site, inserted,
                    skipped, missing_schools, error, stdout, start_table,
                    attempts >>

\* school_rows[0][0]: the first row the store returns; the statement has no
\* ORDER BY, so any matching row may come first.
FirstSchoolRow(school_rows) == school_rows

\* The variant of MissingSchool that forgets `continue`: the loop body goes
\* on to the association with the school_id of an earlier line.
MissingSchool_NoContinue(r, school_name) ==
    /\ missing_schools' =
          [missing_schools EXCEPT ![r] = Append(@, school_name)]
    /\ row_log' = [row_log EXCEPT ![r] =
          Append(@, [outcome |-> "missing_school", school |-> NULL])]
    /\ call_site' = [call_site EXCEPT ![r] = "direct"]
    /\ pc' = [pc EXCEPT ![r] = "ensure_select"]
    /\ UNCHANGED << school_id, line_no >>

\* `if not school_rows:` append the name and `continue`.
MissingSchool(r, school_name) ==
    /\ missing_schools' =
          [missing_schools EXCEPT ![r] = Append(@, school_name)]
    /\ line_no' = [line_no EXCEPT ![r] = @ + 1]
    /\ row_log' = [row_log EXCEPT ![r] =
          Append(@, [outcome |-> "missing_school", school |-> NULL])]
    /\ pc' = [pc EXCEPT ![r] = "loop"]
    /\ UNCHANGED << school_id, call_site >>

\* The school lookup.
LookupSchool(r) ==
    /\ pc[r] = "lookup_school"
    /\ LET school_name == MAPPING_DATA[line_no[r]][3]
           school_rows == SchoolRows(school_name)
       IN  IF school_rows = {}
           THEN MissingSchool(r, school_name)
           ELSE \E first \in FirstSchoolRow(school_rows) :
                /\ school_id' = [school_id EXCEPT ![r] = first.id]
                /\ call_site' = [call_site EXCEPT ![r] = "direct"]
                /\ row_log' = [row_log EXCEPT ![r] =
                       Append(@, [outcome |-> "resolved",
                                  school |-> first.id])]
                /\ pc' = [pc EXCEPT ![r] = "ensure_select"]
                /\ UNCHANGED << missing_schools, line_no >>
    /\ UNCHANGED select_time
    /\ UNCHANGED << batch_table, school_table, config >>
    /\ UNCHANGED << unique_index, MAPPING_DATA, school_batch, pending, clock,
                    txn_time, commit_time, batch_id, parent_id, inserted,
                    skipped, missing_batches, error, stdout, start_table,
                    attempts >>

\* The variant of Returned that adds to `inserted` whatever the call
\* returned.
Returned_AlwaysInserted(r, result) ==
    /\ attempts' = [attempts EXCEPT ![r] =
          Append(@, [line |-> line_no[r], school_id |-> school_id[r],
                     batch_id |-> CallBatch(r), inserted |-> result])]
    /\ inserted' = [inserted EXCEPT ![r] = @ + 1]
    /\ UNCHANGED skipped
    /\ IF call_site[r] = "direct" /\ Truthy(parent_id[r])
       THEN /\ call_site' = [call_site EXCEPT ![r] = "parent"]
            /\ pc' = [pc EXCEPT ![r] = "ensure_select"]
            /\ UNCHANGED line_no
       ELSE /\ line_no' = [line_no EXCEPT ![r] = @ + 1]
            /\ pc' = [pc EXCEPT ![r] = "loop"]
            /\ UNCHANGED call_site

\* ensure_school_batch returns `result` to the loop, which counts it and
\* goes on: to the parent call after the direct one when parent_id is true,
\* to the next line otherwise.
Returned(r, result) ==
    /\ attempts' = [attempts EXCEPT ![r] =
          Append(@, [line |-> line_no[r], school_id |-> school_id[r],
                     batch_id |-> CallBatch(r), inserted |-> result])]
    /\ inserted' = [inserted EXCEPT ![r] = IF result THEN @ + 1 ELSE @]
    /\ skipped' = [skipped EXCEPT ![r] = IF result THEN @ ELSE @ + 1]
    /\ IF call_site[r] = "direct" /\ Truthy(parent_id[r])
       THEN /\ call_site' = [call_site EXCEPT ![r] = "parent"]
            /\ pc' = [pc EXCEPT ![r] = "ensure_select"]
            /\ UNCHANGED line_no
       ELSE /\ line_no' = [line_no EXCEPT ![r] = @ + 1]
            /\ pc' = [pc EXCEPT ![r] = "loop"]
            /\ UNCHANGED call_site

\* The variant of EnsureSelect that touches updated_at of the row it finds.
EnsureSelect_Touch(r) ==
    /\ pc[r] = "ensure_select"
    /\ IF HasKey(Visible(r), school_id[r], CallBatch(r))
       THEN /\ Returned(r, FALSE)
            /\ UNCHANGED select_time
            /\ school_batch' =
                  { IF x.school_id = school_id[r] /\ x.batch_id = CallBatch(r)
                    THEN [x EXCEPT !.updated_at = txn_time[r]]
                    ELSE x : x \in school_batch }
       ELSE /\ pc' = [pc EXCEPT ![r] = "ensure_insert"]
            /\ select_time' = [select_time EXCEPT ![r] = clock]
            /\ UNCHANGED << attempts, inserted, skipped, call_site, line_no,
                            school_batch >>
    /\ UNCHANGED << batch_table, school_table, config >>
    /\ UNCHANGED << unique_index, MAPPING_DATA, pending, clock,
                    txn_time, commit_time, batch_id, parent_id, school_id,
                    missing_batches, missing_schools, error, stdout,
                    start_table, row_log >>

\* ensure_school_batch, the SELECT 1 ... and `if cur.fetchone(): return False`.
EnsureSelect(r) ==
    /\ pc[r] = "ensure_select"
    /\ IF HasKey(Visible(r), school_id[r], CallBatch(r))
       THEN Returned(r, FALSE) /\ UNCHANGED select_time
       ELSE /\ pc' = [pc EXCEPT ![r] = "ensure_insert"]
            /\ select_time' = [select_time EXCEPT ![r] = clock]
            /\ UNCHANGED << attempts, inserted, skipped, call_site, line_no >>
    /\ UNCHANGED << batch_table, school_table, config >>
    /\ UNCHANGED << unique_index, MAPPING_DATA, school_batch, pending, clock,
                    txn_time, commit_time, batch_id, parent_id, school_id,
                    missing_batches, missing_schools, error, stdout,
                    start_table, row_log >>

\* An exception leaves `with conn:`: the transaction is rolled back and the
\* script ends with a traceback, before the prints.
Raise(r, exception) ==
    /\ pending' = [pending EXCEPT ![r] = {}]
    /\ error' = [error EXCEPT ![r] = exception]
    /\ pc' = [pc EXCEPT ![r] = "aborted"]

\* With the unique index, an INSERT of a key that another open transaction
\* has inserted waits for that transaction to end.
Waiting(r) ==
    /\ pc[r] = "ensure_insert"
    /\ unique_index
    /\ HasKey(pending[Other(r)], school_id[r], CallBatch(r))

\* The variant of NewRow that leaves updated_at to a column default.
NewRow_DefaultUpdatedAt(r) ==
    [Row(school_id[r], CallBatch(r), txn_time[r], r) EXCEPT !.updated_at = 0]

\* The row the INSERT statement writes: NOW() twice.
NewRow(r) == Row(school_id[r], CallBatch(r), txn_time[r], r)

\* The variant of EnsureInsert on a connection in autocommit mode: the row
\* is committed by the statement.
EnsureInsert_Autocommit(r) ==
    /\ pc[r] = "ensure_insert"
    /\ ~Waiting(r)
    /\ select_time' = [select_time EXCEPT ![r] = 0]
    /\ IF unique_index /\ HasKey(Visible(r), school_id[r], CallBatch(r))
       THEN /\ Raise(r, "UniqueViolation")
            /\ UNCHANGED << attempts, inserted, skipped, call_site, line_no,
                            school_batch >>
       ELSE /\ school_batch' = school_batch \cup {NewRow(r)}
            /\ Returned(r, TRUE)
            /\ UNCHANGED << error, pending >>
    /\ UNCHANGED << batch_table, school_table, config >>
    /\ UNCHANGED << unique_index, MAPPING_DATA, clock, txn_time,
                    commit_time, batch_id, parent_id, school_id,
                    missing_batches, missing_schools, stdout, start_table,
                    row_log >>

\* ensure_school_batch, the INSERT and `return True`.
EnsureInsert(r) ==
    /\ pc[r] = "ensure_insert"
    /\ ~Waiting(r)
    /\ select_time' = [select_time EXCEPT ![r] = 0]
    /\ IF unique_index /\ HasKey(Visible(r), school_id[r], CallBatch(r))
       THEN /\ Raise(r, "UniqueViolation")
            /\ UNCHANGED << attempts, inserted, skipped, call_site, line_no >>
       ELSE /\ pending' = [pending EXCEPT ![r] = @ \cup {NewRow(r)}]
            /\ Returned(r, TRUE)
            /\ UNCHANGED error
    /\ UNCHANGED << batch_table, school_table, config >>
    /\ UNCHANGED << unique_index, MAPPING_DATA, school_batch, clock, txn_time,
                    commit_time, batch_id, parent_id, school_id,
                    missing_batches, missing_schools, stdout, start_table,
                    row_log >>

\* Two INSERTs waiting for each other: the store ends one with an error.
DeadlockDetected(r) ==
    /\ Waiting(r)
    /\ Waiting(Other(r))
    /\ Raise(r, "DeadlockDetected")
    /\ UNCHANGED select_time
    /\ UNCHANGED << batch_table, school_table, config >>
    /\ UNCHANGED << unique_index, MAPPING_DATA, school_batch, clock, txn_time,
                    commit_time, line_no, batch_id, parent_id, school_id,
                    call_site, inserted, skipped, missing_batches,
                    missing_schools, stdout, start_table, row_log, attempts >>

\* The loop is over: `with conn:` commits.
Commit(r) ==
    /\ pc[r] = "loop"
    /\ line_no[r] > Len(MAPPING_DATA)
    /\ school_batch' = school_batch \cup pending[r]
    /\ pending' = [pending EXCEPT ![r] = {}]
    /\ clock' = clock + 1
    /\ commit_time' = [commit_time EXCEPT ![r] = clock + 1]
    /\ pc' = [pc EXCEPT ![r] = "report"]
    /\ UNCHANGED select_time
    /\ UNCHANGED << batch_table, school_table, config >>
    /\ UNCHANGED << unique_index, MAPPING_DATA, txn_time, line_no, batch_id,
                    parent_id, school_id, call_site, inserted, skipped,
                    missing_batches, missing_schools, error, stdout,
                    start_table, row_log, attempts >>

\* list(set(xs)) in the order of first appearance: set() without sorted().
RECURSIVE Distinct(_, _)
Distinct(xs, acc) ==
    IF xs = << >> THEN acc
    ELSE Distinct(Tail(xs),
                  IF Head(xs) \in SetOf(acc) THEN acc
                  ELSE Append(acc, Head(xs)))

\* The variant of Summary that prints the unresolved keys unsorted.
Summary_Unsorted(r) ==
    << [label |-> "Inserted", count |-> inserted[r], keys |-> << >>],
       [label |-> "Skipped (already exists)", count |-> skipped[r],
        keys |-> << >>] >>
    \o (IF missing_batches[r] # << >>
        THEN << [label |-> "Missing batch_id rows", count |-> 0,
                 keys |-> Distinct(missing_batches[r], << >>)] >>
        ELSE << >>)
    \o (IF missing_schools[r] # << >>
        THEN << [label |-> "Missing school rows", count |-> 0,
                 keys |-> Distinct(missing_schools[r], << >>)] >>
        ELSE << >>)

\* What the four print statements write; ", ".join is kept as the list.
Summary(r) ==
    << [label |-> "Inserted", count |-> inserted[r], keys |-> << >>],
       [label |-> "Skipped (already exists)", count |-> skipped[r],
        keys |-> << >>] >>
    \o (IF missing_batches[r] # << >>
        THEN << [label |-> "Missing batch_id rows", count |-> 0,
                 keys |-> SortedSet(missing_batches[r])] >>
        ELSE << >>)
    \o (IF missing_schools[r] # << >>
        THEN << [label |-> "Missing school rows", count |-> 0,
                 keys |-> SortedSet(missing_schools[r])] >>
        ELSE << >>)

\* The prints after the `with` block.
Report(r) ==
    /\ pc[r] = "report"
    /\ stdout' = [stdout EXCEPT ![r] = Summary(r)]
    /\ pc' = [pc EXCEPT ![r] = "done"]
    /\ UNCHANGED select_time
    /\ UNCHANGED << batch_table, school_table, config >>
    /\ UNCHANGED << unique_index, MAPPING_DATA, school_batch, pending, clock,
                    txn_time, commit_time, line_no, batch_id, parent_id,
                    school_id, call_site, inserted, skipped, missing_batches,
                    missing_schools, error, start_table, row_log, attempts >>

Next ==
    \E r \in Runs :
        \/ LoadConfig(r)
        \/ Begin(r)
        \/ SkipLine(r)
        \/ LookupBatch(r)
        \/ LookupSchool(r)
        \/ EnsureSelect(r)
        \/ EnsureInsert(r)
        \/ DeadlockDetected(r)
        \/ Commit(r)
        \/ Report(r)

Spec == Init /\ [][Next]_vars

\* ------------------------------------------------- vocabulary of the claims
WellFormed(k) == ~Malformed(MAPPING_DATA[k])

CodeOf(k) == MAPPING_DATA[k][1]

NameOf(k) == MAPPING_DATA[k][3]

BatchResolves(k) == WellFormed(k) /\ BatchRows(CodeOf(k)) # {}

Resolves(k) == BatchResolves(k) /\ SchoolRows(NameOf(k)) # {}

BatchOf(k) == CHOOSE b \in batch : b.batch_id = CodeOf(k)

\* The lines run r has classified, and those it has finished with.
Classified(r) == 1..Len(row_log[r])

Finished(r) == { k \in Classified(r) : k < line_no[r] }

\* The calls of ensure_school_batch run r made for line k, in order.
CallsOf(r, k) ==
    LET ks == { n \in 1..Len(attempts[r]) : attempts[r][n].line = k }
        RECURSIVE Take(_, _)
        Take(n, acc) ==
            IF n > Len(attempts[r]) THEN acc
            ELSE Take(n + 1, IF n \in ks
                             THEN Append(acc, << attempts[r][n].school_id,
                                                 attempts[r][n].batch_id >>)
                             ELSE acc)
    IN  Take(1, << >>)

InsertedCalls(r) == { n \in 1..Len(attempts[r]) : attempts[r][n].inserted }

Completed(r) == pc[r] \in {"report", "done"}

\* Run q committed before run r began.
Before(q, r) ==
    /\ q # r
    /\ commit_time[q] # 0
    /\ pc[r] # "idle"
    /\ commit_time[q] < txn_time[r]

MinId(rows) == CHOOSE m \in { x.id : x \in rows } : \A x \in rows : m <= x.id

\* ------------------------------------------------------------------ claims
\* C1: a run that begins after another run over the same mapping table has
\* committed performs no insert: its inserted counter stays 0, every one of
\* its association attempts is a skip, and school_batch is the same after
\* it as before it.
C1_SecondRunInsertsNothing ==
    \A q, r \in Runs :
        Before(q, r) =>
            /\ inserted[r] = 0
            /\ pending[r] = {}
            /\ InsertedCalls(r) = {}
            /\ skipped[r] = Len(attempts[r])
            /\ Completed(r) => school_batch = start_table[r]

\* C2: school_batch never holds two rows with the same
\* (school_id, batch_id), whatever the interleaving of the two runs.
C2_OneRowPerPair ==
    \A x, y \in school_batch :
        (x.school_id = y.school_id /\ x.batch_id = y.batch_id) => x = y

\* C3: an INSERT rejected by the unique index does not abort the run: the
\* call is counted as a skip and the run goes on.
C3_ViolationIsASkip ==
    \A r \in Runs :
        error[r] = "UniqueViolation" =>
            /\ pc[r] # "aborted"
            /\ attempts[r] # << >>
            /\ ~attempts[r][Len(attempts[r])].inserted

\* C4: a line whose school name matches several school rows resolves to the
\* lowest id among them, so both runs resolve it to the same school.
C4_LowestIdChosen ==
    /\ \A r \in Runs : \A k \in Classified(r) :
          row_log[r][k].outcome = "resolved" =>
              row_log[r][k].school = MinId(SchoolRows(NameOf(k)))
    /\ \A k \in Classified(1) \cap Classified(2) :
          row_log[1][k].school = row_log[2][k].school

\* C5: every finished line that resolved has its calls in order,
\* (school, batch) and then, when the batch's parent_id is not NULL,
\* (school, parent), and only the first when it is NULL; every call adds one
\* to exactly one of the two counters.
C5_ParentPropagation ==
    \A r \in Runs :
        /\ inserted[r] = Cardinality(InsertedCalls(r))
        /\ inserted[r] + skipped[r] = Len(attempts[r])
        /\ \A k \in Finished(r) :
              row_log[r][k].outcome = "resolved" =>
                  LET b == BatchOf(k)
                      s == row_log[r][k].school
                  IN  CallsOf(r, k) =
                          IF b.parent_id # NULL
                          THEN << <<s, b.id>>, <<s, b.parent_id>> >>
                          ELSE << <<s, b.id>> >>

\* C6: when a run has completed, school_batch holds, for every line that
\* resolves, the row (school, batch) and, when the batch's parent_id is not
\* NULL, the row (school, parent), for the school the run resolved.
C6_Complete ==
    \A r \in Runs :
        Completed(r) =>
            \A k \in 1..Len(MAPPING_DATA) :
                Resolves(k) =>
                    /\ k \in Classified(r)
                    /\ row_log[r][k].outcome = "resolved"
                    /\ LET b == BatchOf(k)
                           s == row_log[r][k].school
                       IN  /\ HasKey(school_batch, s, b.id)
                           /\ b.parent_id # NULL =>
                                  HasKey(school_batch, s, b.parent_id)

\* The keys a printed line of the summary carries.
PrintedKeys(r, label) ==
    IF \E n \in 1..Len(stdout[r]) : stdout[r][n].label = label
    THEN stdout[r][CHOOSE n \in 1..Len(stdout[r]) :
                      stdout[r][n].label = label].keys
    ELSE << >>

\* The rows of school_batch run r wrote, as keys, and the keys of the calls
\* that returned True.
WrittenKeys(r) ==
    { <<x.school_id, x.batch_id>> :
        x \in pending[r] \cup { y \in school_batch : y.xmin = r } }

InsertedKeys(r) ==
    { <<attempts[r][n].school_id, attempts[r][n].batch_id>> :
        n \in InsertedCalls(r) }

\* C7: a line whose batch code matches no batch row causes no call of
\* ensure_school_batch (the counters count calls only and rows are written
\* by calls only), the loop goes on to the next line, and the report names
\* the code exactly once.
C7_UnresolvedBatch ==
    \A r \in Runs :
        /\ inserted[r] + skipped[r] = Len(attempts[r])
        /\ WrittenKeys(r) \subseteq InsertedKeys(r)
        /\ Completed(r) => Len(row_log[r]) = Len(MAPPING_DATA)
        /\ \A k \in Classified(r) :
              (WellFormed(k) /\ ~BatchResolves(k)) =>
                  /\ row_log[r][k].outcome = "missing_batch"
                  /\ CallsOf(r, k) = << >>
                  /\ line_no[r] > k
                  /\ k = Len(row_log[r]) => pc[r] # "aborted"
                  /\ Count(missing_batches[r], CodeOf(k)) >= 1
                  /\ pc[r] = "done" =>
                        Count(PrintedKeys(r, "Missing batch_id rows"),
                              CodeOf(k)) = 1

\* C7's case: a completed run whose table names one missing code twice.
C7_Witness ==
    \E r \in Runs :
        /\ pc[r] = "done"
        /\ Len(MAPPING_DATA) = 2
        /\ CodeOf(1) = "GHOST"
        /\ CodeOf(2) = "GHOST"
        /\ missing_batches[r] = << "GHOST", "GHOST" >>
        /\ inserted[r] = 0
        /\ skipped[r] = 0

\* C8: a line whose batch resolves and whose school name matches no school
\* row causes no call of ensure_school_batch, for the batch or its parent;
\* the name is recorded once per such line (nothing is retried) and printed
\* once; the loop goes on, and a run that completes has classified every
\* line.
C8_UnresolvedSchool ==
    \A r \in Runs :
        /\ Completed(r) => Len(row_log[r]) = Len(MAPPING_DATA)
        /\ \A k \in Classified(r) :
              (BatchResolves(k) /\ SchoolRows(NameOf(k)) = {}) =>
                  /\ row_log[r][k].outcome = "missing_school"
                  /\ CallsOf(r, k) = << >>
                  /\ line_no[r] > k
                  /\ k = Len(row_log[r]) => pc[r] # "aborted"
                  /\ Count(missing_schools[r], NameOf(k)) =
                        Cardinality({ j \in Classified(r) :
                            /\ row_log[r][j].outcome = "missing_school"
                            /\ NameOf(j) = NameOf(k) })
                  /\ pc[r] = "done" =>
                        Count(PrintedKeys(r, "Missing school rows"),
                              NameOf(k)) = 1

\* C8's case: a completed run whose first line has an unknown school and
\* whose second line was associated.
C8_Witness ==
    \E r \in Runs :
        /\ pc[r] = "done"
        /\ Len(MAPPING_DATA) = 2
        /\ row_log[r][1].outcome = "missing_school"
        /\ row_log[r][2].outcome = "resolved"
        /\ CallsOf(r, 2) # << >>
        /\ PrintedKeys(r, "Missing school rows") = << NameOf(1) >>

ResolvedLines == { k \in 1..Len(MAPPING_DATA) : Resolves(k) }

\* C9: when a run is done, every line is classified, a well-formed line as
\* resolved, missing batch or missing school according to the tables; the
\* counters add up to the number of calls, which is the number of resolved
\* lines plus the number of resolved lines whose batch has a parent; and
\* the key of every unresolved line is printed.
C9_EveryRowAccounted ==
    \A r \in Runs :
        pc[r] = "done" =>
            /\ Len(row_log[r]) = Len(MAPPING_DATA)
            /\ \A k \in 1..Len(MAPPING_DATA) :
                  WellFormed(k) =>
                      /\ row_log[r][k].outcome =
                            IF Resolves(k) THEN "resolved"
                            ELSE IF BatchResolves(k) THEN "missing_school"
                            ELSE "missing_batch"
                      /\ row_log[r][k].outcome = "missing_batch" =>
                            CodeOf(k) \in
                              SetOf(PrintedKeys(r, "Missing batch_id rows"))
                      /\ row_log[r][k].outcome = "missing_school" =>
                            NameOf(k) \in
                              SetOf(PrintedKeys(r, "Missing school rows"))
            /\ inserted[r] + skipped[r] = Len(attempts[r])
            /\ Len(attempts[r]) =
                  Cardinality(ResolvedLines)
                  + Cardinality({ k \in ResolvedLines :
                                   BatchOf(k).parent_id # NULL })

\* A step of run r in ensure_school_batch: its SELECT, its INSERT.
SelectStep(r) ==
    /\ pc[r] = "ensure_select"
    /\ pc'[r] # "ensure_select" \/ attempts'[r] # attempts[r]

InsertStep(r) == pc[r] = "ensure_insert" /\ pc'[r] # "ensure_insert"

\* Since the SELECT of run r's open call the other run has committed
\* nothing, and it holds no uncommitted row the INSERT has to wait for.
NoInterference(r) ==
    /\ commit_time[Other(r)] <= select_time[r]
    /\ ~Waiting(r)

ReturnsFrom(r, result) ==
    attempts'[r] =
        Append(attempts[r],
               [line |-> line_no[r], school_id |-> school_id[r],
                batch_id |-> CallBatch(r), inserted |-> result])

C10_Step(r) ==
    LET s == school_id[r]
        b == CallBatch(r)
        seen == HasKey(Visible(r), s, b)
    IN  /\ SelectStep(r) =>
              /\ school_batch' = school_batch
              /\ pending' = pending
              /\ IF seen
                 THEN ReturnsFrom(r, FALSE)
                 ELSE attempts' = attempts /\ pc'[r] = "ensure_insert"
        /\ (InsertStep(r) /\ NoInterference(r)) =>
              /\ ~seen
              /\ ReturnsFrom(r, TRUE)
              /\ school_batch' = school_batch
              /\ pending'[Other(r)] = pending[Other(r)]
              /\ \E row \in pending'[r] :
                    /\ row \notin Visible(r)
                    /\ pending'[r] = pending[r] \cup {row}
                    /\ row.school_id = s
                    /\ row.batch_id = b
                    /\ row.inserted_at = txn_time[r]
                    /\ row.updated_at = txn_time[r]
        /\ (SelectStep(r) /\ seen) \/ (InsertStep(r) /\ NoInterference(r)) =>
              HasKey(school_batch' \cup pending'[r], s, b)

\* C10: a call of ensure_school_batch that no other run interferes with
\* returns False when a row with the key is visible at its SELECT, and then
\* changes nothing; otherwise it returns True after adding exactly one row
\* with the key, inserted_at and updated_at both the NOW() of the
\* transaction.  Either way a row with the key is visible afterwards.
C10_EnsureAssociation == [][\A r \in Runs : C10_Step(r)]_vars

\* C10's case: a run on its own has finished with calls that returned True
\* and calls that returned False, and its rows are committed.
C10_Witness ==
    /\ pc[1] = "done"
    /\ pc[2] = "idle"
    /\ InsertedCalls(1) # {}
    /\ InsertedCalls(1) # 1..Len(attempts[1])
    /\ \E x \in school_batch :
          x.xmin = 1 /\ x.inserted_at = txn_time[1] /\ x.updated_at = txn_time[1]

\* C11: no step changes table batch or table school; a committed
\* school_batch row is never changed or removed, so the table only grows;
\* and a call that finds the row (a skip) leaves school_batch, and so the
\* row's inserted_at and updated_at, as they were.
C11_Frame ==
    [][/\ batch_table' = batch_table
       /\ school_table' = school_table
       /\ school_batch \subseteq school_batch'
       /\ \A r \in Runs :
             (SelectStep(r) /\ HasKey(Visible(r), school_id[r], CallBatch(r)))
                 => /\ school_batch' = school_batch
                    /\ pending' = pending]_vars

\* C11's case: a run that found a row of before it began, skipped it and
\* inserted another is done, and the old row is still there as it was.
C11_Witness ==
    \E r \in Runs :
        /\ pc[r] = "done"
        /\ skipped[r] > 0
        /\ inserted[r] > 0
        /\ Row(7, 1, 0, 0) \in start_table[r]
        /\ Row(7, 1, 0, 0) \in school_batch
        /\ school_batch # start_table[r]
        /\ \E n \in 1..Len(attempts[r]) :
              /\ ~attempts[r][n].inserted
              /\ attempts[r][n].school_id = 7
              /\ attempts[r][n].batch_id = 1

\* The run connected to the database.
Connected(r) == txn_time[r] # 0

Absent(v) == v = None

\* C12: a run that found DATABASE_HOST, DATABASE_USER, DATABASE_PASSWORD or
\* DATABASE_NAME absent has ended with RuntimeError and has not connected,
\* processed a line, written a row or printed; a run that found the four
\* has not ended so, whether or not DATABASE_PORT was set, and its port is
\* 5432 when it was not.
C12_FatalConfigurationError ==
    \A r \in Runs :
        pc[r] # "idle" =>
            IF \/ Absent(config[r].DB_HOST)
               \/ Absent(config[r].DB_USER)
               \/ Absent(config[r].DB_PASSWORD)
               \/ Absent(config[r].DB_NAME)
            THEN /\ pc[r] = "aborted"
                 /\ error[r] = "RuntimeError"
                 /\ ~Connected(r)
                 /\ row_log[r] = << >>
                 /\ attempts[r] = << >>
                 /\ WrittenKeys(r) = {}
                 /\ stdout[r] = << >>
                 /\ ~Connected(Other(r)) => school_batch \in InitialTables
            ELSE /\ error[r] # "RuntimeError"
                 /\ config[r].DB_PORT = 5432

\* C12's case: a run has ended on a missing password, every other name
\* being set, on a table that had a row.
C12_Witness ==
    \E r \in Runs :
        /\ pc[r] = "aborted"
        /\ Absent(config[r].DB_PASSWORD)
        /\ ~Absent(config[r].DB_HOST)
        /\ ~Absent(config[r].DB_USER)
        /\ ~Absent(config[r].DB_NAME)
        /\ error[r] = "RuntimeError"
        /\ school_batch = {Row(7, 1, 0, 0)}

\* The committed rows run r wrote.
CommittedBy(r) == { x \in school_batch : x.xmin = r }

\* C13: the rows of a run become visible to others all at once, at the
\* commit that follows the last line: before it none of them is committed,
\* after it every insert of the run is, under the one NOW() of its
\* transaction.  A run an error ended has none of its rows left, committed
\* or not, and has printed nothing: school_batch is as it was when the run
\* began, but for what the other run has committed since.
C13_TransactionBoundary ==
    \A r \in Runs :
        /\ commit_time[r] = 0 => CommittedBy(r) = {}
        /\ commit_time[r] # 0 =>
              /\ Completed(r)
              /\ Len(row_log[r]) = Len(MAPPING_DATA)
              /\ line_no[r] > Len(MAPPING_DATA)
              /\ pending[r] = {}
              /\ Cardinality(CommittedBy(r)) = inserted[r]
              /\ { <<x.school_id, x.batch_id>> : x \in CommittedBy(r) }
                    = InsertedKeys(r)
              /\ \A x \in CommittedBy(r) : x.inserted_at = txn_time[r]
        /\ Completed(r) <=> commit_time[r] # 0
        /\ pc[r] = "aborted" =>
              /\ error[r] # "none"
              /\ commit_time[r] = 0
              /\ pending[r] = {}
              /\ stdout[r] = << >>
              /\ Connected(r) =>
                    /\ start_table[r] \subseteq school_batch
                    /\ school_batch \ start_table[r]
                          \subseteq CommittedBy(Other(r))
                    /\ commit_time[Other(r)] < txn_time[r] =>
                          school_batch = start_table[r]

\* C13's case: an error ended a run at its second line after an insert for
\* its first line had returned.
C13_Witness ==
    \E r \in Runs :
        /\ pc[r] = "aborted"
        /\ error[r] \in {"UniqueViolation", "DeadlockDetected"}
        /\ line_no[r] = 2
        /\ \E n \in InsertedCalls(r) : attempts[r][n].line = 1
        /\ school_batch = start_table[r]

\* Run r has the database to itself: the other run has not connected, or
\* had committed when r began.
Alone(r) ==
    /\ Connected(r)
    /\ ~Connected(Other(r)) \/ Before(Other(r), r)

KeyOfCall(r, n) == << attempts[r][n].school_id, attempts[r][n].batch_id >>

\* C14: at every point of a run that has the database to itself, inserted
\* is the number of school_batch rows the run sees now that were not there
\* when it began; a call returns True exactly when its pair was not there
\* then and no earlier call of the run was for it, so a pair several lines
\* lead to is inserted once and skipped afterwards.
C14_InsertedExact ==
    \A r \in Runs :
        Alone(r) =>
            /\ inserted[r] = Cardinality(Visible(r) \ start_table[r])
            /\ Visible(r) \ start_table[r] = pending[r] \cup CommittedBy(r)
            /\ skipped[r] = Len(attempts[r]) - inserted[r]
            /\ \A n \in 1..Len(attempts[r]) :
                  attempts[r][n].inserted <=>
                      /\ ~HasKey(start_table[r], attempts[r][n].school_id,
                                 attempts[r][n].batch_id)
                      /\ \A m \in 1..(n - 1) :
                            KeyOfCall(r, m) # KeyOfCall(r, n)

\* C14's case: two batches of one school share a parent; the run, alone on
\* an empty table, inserted three rows and skipped the parent's second time.
C14_Witness ==
    \E r \in Runs :
        /\ Alone(r)
        /\ pc[r] = "done"
        /\ start_table[r] = {}
        /\ MAPPING_DATA = << <<"X01", "CoE", "A">>, <<"X02", "CoE", "A">> >>
        /\ row_log[r][1].school = row_log[r][2].school
        /\ inserted[r] = 3
        /\ skipped[r] = 1
        /\ Cardinality(school_batch) = 3

\* The pairs line k may lead to: a school of the line's name with the
\* line's batch or that batch's parent.
Targets(k) ==
    { << s.id, b.id >> : s \in SchoolRows(NameOf(k)),
                        b \in BatchRows(CodeOf(k)) }
    \cup
    { << s.id, b.parent_id >> : s \in SchoolRows(NameOf(k)),
                               b \in { c \in BatchRows(CodeOf(k)) :
                                         c.parent_id # NULL } }

LastCall(r) == attempts[r][Len(attempts[r])]

\* Run r returns from a call of ensure_school_batch.
C15_Call(r) ==
    LET k == line_no[r]
        call == attempts'[r][Len(attempts'[r])]
        first == attempts[r] = << >> \/ LastCall(r).line # k
    IN  /\ attempts'[r] = Append(attempts[r], call)
        /\ call.line = k
        /\ << call.school_id, call.batch_id >> \in Targets(k)
        /\ first => call.batch_id = BatchOf(k).id
        /\ ~first =>
              /\ LastCall(r).batch_id = BatchOf(k).id
              /\ LastCall(r).school_id = call.school_id
              /\ call.batch_id = BatchOf(k).parent_id
              /\ line_no'[r] = k + 1

C15_Step(r) ==
    /\ attempts'[r] # attempts[r] => C15_Call(r)
    /\ ~(pending'[r] \subseteq pending[r]) =>
          /\ attempts'[r] # attempts[r]
          /\ \E row \in pending'[r] :
                /\ pending'[r] = pending[r] \cup {row}
                /\ row.school_id = school_id[r]
                /\ row.batch_id = attempts'[r][Len(attempts'[r])].batch_id
    /\ { x \in school_batch' : x.xmin = r }
          \subseteq CommittedBy(r) \cup pending[r]

\* C15: every call of ensure_school_batch a run makes is for a pair (s, b)
\* or (s, parent(b)) where b is the batch of the line the run is at and s
\* a school of that line's name: the first call of a line is for b, a
\* second one is for parent(b) with the same school, and the line is over
\* after it.  A row enters a run's transaction only in such a call, with
\* the call's pair, and the table only through the transaction.
C15_OneLevelPropagation == [][\A r \in Runs : C15_Step(r)]_vars

\* C15's case: a run over the one line X01 / A is done; batch 1 has parent
\* 3, whose parent is batch 0; the run wrote (s, 1) and (s, 3) only.
C15_Witness ==
    \E r \in Runs :
        /\ pc[r] = "done"
        /\ MAPPING_DATA = << <<"X01", "CoE", "A">> >>
        /\ start_table[r] = {}
        /\ \E s \in {7, 8} : WrittenKeys(r) = { <<s, 1>>, <<s, 3>> }
        /\ \E b \in batch_table : b.id = 3 /\ b.parent_id = 0
        /\ \E b \in batch_table : b.id = 0

C16_Step(r) ==
    LET k == line_no[r]
        printed == SetOf(PrintedKeys(r, "Missing school rows"))
    IN  /\ (pc[r] # "lookup_school" /\ pc'[r] = "lookup_school") =>
              /\ pc[r] = "loop"
              /\ BatchResolves(k)
              /\ line_no'[r] = k
        /\ ( /\ pc[r] = "loop"
             /\ k <= Len(MAPPING_DATA)
             /\ row_log'[r] # row_log[r] \/ pc'[r] # pc[r]
             /\ WellFormed(k)
             /\ ~BatchResolves(k) ) =>
              /\ pc'[r] = "loop"
              /\ line_no'[r] = k + 1
              /\ missing_batches'[r] = Append(missing_batches[r], CodeOf(k))
              /\ missing_schools'[r] = missing_schools[r]
              /\ row_log'[r] =
                    Append(row_log[r],
                           [outcome |-> "missing_batch", school |-> NULL])
        /\ missing_schools'[r] # missing_schools[r] =>
              /\ pc[r] = "lookup_school"
              /\ BatchResolves(k)
              /\ SchoolRows(NameOf(k)) = {}
              /\ missing_schools'[r] = Append(missing_schools[r], NameOf(k))
        /\ stdout'[r] # stdout[r] =>
              /\ printed' \subseteq SetOf(missing_schools[r])
              /\ \A name \in printed' :
                    \E j \in 1..Len(MAPPING_DATA) :
                        /\ BatchResolves(j)
                        /\ NameOf(j) = name
                        /\ row_log[r][j].outcome = "missing_school"

\* C16: a run reaches the school lookup of a line only from the batch
\* lookup of that line, when the code matched; at a line whose code matches
\* nothing the run records the code and goes to the next line, leaving
\* missing_schools alone; a name is appended to missing_schools only by a
\* school lookup, which follows a batch match, and only such names are
\* printed under "Missing school rows".
C16_LookupOrder == [][\A r \in Runs : C16_Step(r)]_vars

\* C16's case: a done run whose first line has an unknown code and an
\* unknown school name, and whose second line has a known code and another
\* unknown name: only the second name is reported.
C16_Witness ==
    \E r \in Runs :
        /\ pc[r] = "done"
        /\ MAPPING_DATA = << <<"GHOST", "CoE", "Nowhere">>,
                             <<"R00", "Nodal", "Elsewhere">> >>
        /\ SchoolRows("Nowhere") = {}
        /\ missing_batches[r] = << "GHOST" >>
        /\ missing_schools[r] = << "Elsewhere" >>
        /\ PrintedKeys(r, "Missing school rows") = << "Elsewhere" >>

Ascending(keys) ==
    \A i, j \in 1..Len(keys) : i < j => Rank[keys[i]] < Rank[keys[j]]

\* What a summary of run r has to say in the current state.
Reported(r) ==
    /\ pc[r] = "done"
    /\ commit_time[r] # 0
    /\ pending[r] = {}
    /\ Len(row_log[r]) = Len(MAPPING_DATA)
    /\ Len(stdout[r]) >= 2
    /\ stdout[r][1].label = "Inserted"
    /\ stdout[r][1].count = inserted[r]
    /\ stdout[r][2].label = "Skipped (already exists)"
    /\ stdout[r][2].count = skipped[r]
    /\ Ascending(PrintedKeys(r, "Missing batch_id rows"))
    /\ SetOf(PrintedKeys(r, "Missing batch_id rows")) =
          { CodeOf(k) : k \in { j \in Classified(r) :
                                  row_log[r][j].outcome = "missing_batch" } }
    /\ Ascending(PrintedKeys(r, "Missing school rows"))
    /\ SetOf(PrintedKeys(r, "Missing school rows")) =
          { NameOf(k) : k \in { j \in Classified(r) :
                                  row_log[r][j].outcome = "missing_school" } }

C17_Step(r) ==
    /\ stdout'[r] # stdout[r] =>
          /\ stdout[r] = << >>
          /\ pc[r] = "report"
          /\ commit_time[r] # 0
          /\ line_no[r] > Len(MAPPING_DATA)
          /\ school_batch' = school_batch
          /\ pending' = pending
          /\ batch_table' = batch_table
          /\ school_table' = school_table
          /\ inserted' = inserted
          /\ skipped' = skipped
    /\ stdout'[r] # << >> => Reported(r)'

\* C17: a run prints once, after its last line and its commit, and the
\* step that prints changes no table and no uncommitted row; what is
\* printed is, from then on, the run's inserted and skipped counters and
\* the codes and names of its unresolved lines, each list in strictly
\* ascending order (so without duplicates).
C17_Reporting == [][\A r \in Runs : C17_Step(r)]_vars

\* C17's case: a done run printed the two unknown school names of its
\* table in ascending order, the reverse of the order of the lines.
C17_Witness ==
    \E r \in Runs :
        /\ pc[r] = "done"
        /\ missing_schools[r] = << "Nowhere", "Elsewhere" >>
        /\ PrintedKeys(r, "Missing school rows") = << "Elsewhere", "Nowhere" >>
        /\ stdout[r][1].count = inserted[r]
        /\ commit_time[r] # 0

=============================================================================
